---------------------------- MODULE Spec2Model ----------------------------
(***************************************************************************)
(* Model of the prompt-building backend (src/main.py).                     *)
(*                                                                         *)
(* A text is a sequence of Unicode code points (Python's str): Len is      *)
(* Python's len, \o is +, and 10 is the line feed "\n".  Every literal of  *)
(* the source is written out as its code points, with the text itself in   *)
(* the comment above it.                                                   *)
(*                                                                         *)
(* FastAPI runs each "def" handler on a thread of its pool, so handlers    *)
(* interleave.  generate_prompt is modelled in the steps in which it reads *)
(* shared state: the MODEL_STYLES lookup (line 128), the five bjoin calls   *)
(* (lines 132-136) and the rendering and return (lines 138-179).           *)
(***************************************************************************)
EXTENDS Integers, Sequences, FiniteSets, TLC

-----------------------------------------------------------------------------
(* Bounds of the model. *)

\* number of pool threads that serve requests at the same time
NumWorkers == 2

\* longest list given for features, pages, seo_keywords, preferred_stack, deliverables
MaxItems == 2

-----------------------------------------------------------------------------
(* Python's str and list operations used by the source. *)

Indices(s) == [i \in 1..Len(s) |-> i]

\* str.strip(): the characters for which str.isspace() is true
Whitespace ==
    {9, 10, 11, 12, 13, 28, 29, 30, 31, 32, 133, 160, 5760, 8232, 8233, 8239, 8287, 12288}
        \cup (8192..8202)

\* s.strip()
Strip(s) ==
    LET keep == SelectSeq(Indices(s), LAMBDA i: s[i] \notin Whitespace)
    IN  IF keep = <<>> THEN <<>> ELSE SubSeq(s, keep[1], keep[Len(keep)])

\* "\n".join(parts)
RECURSIVE JoinLines(_)
JoinLines(parts) ==
    IF parts = <<>> THEN <<>>
    ELSE IF Len(parts) = 1 THEN parts[1]
    ELSE parts[1] \o <<10>> \o JoinLines(Tail(parts))

\* x or d, for a str x: the empty string is false
OrDefault(x, d) == IF x # <<>> THEN x ELSE d

\* s[:n]
Prefix(s, n) == SubSeq(s, 1, IF Len(s) < n THEN Len(s) ELSE n)

-----------------------------------------------------------------------------
(* PromptRequest, lines 17-44. *)

\* Literal["gpt-4o", "gpt-4.1", "claude-3.5", "gemini-1.5", "llama-3.1", "mistral-large"]
gpt_4o        == <<103, 112, 116, 45, 52, 111>>
gpt_4_1       == <<103, 112, 116, 45, 52, 46, 49>>
claude_3_5    == <<99, 108, 97, 117, 100, 101, 45, 51, 46, 53>>
gemini_1_5    == <<103, 101, 109, 105, 110, 105, 45, 49, 46, 53>>
llama_3_1     == <<108, 108, 97, 109, 97, 45, 51, 46, 49>>
mistral_large == <<109, 105, 115, 116, 114, 97, 108, 45, 108, 97, 114, 103, 101>>
LlmLiteral == {gpt_4o, gpt_4_1, claude_3_5, gemini_1_5, llama_3_1, mistral_large}

\* Literal["landing", "marketing", "portfolio", "blog", "docs", "saas", "ecommerce"]
SiteTypeLiteral ==
    { <<108, 97, 110, 100, 105, 110, 103>>, <<109, 97, 114, 107, 101, 116, 105, 110, 103>>, <<112, 111, 114, 116, 102, 111, 108, 105, 111>>, <<98, 108, 111, 103>>, <<100, 111, 99, 115>>, <<115, 97, 97, 115>>,
      <<101, 99, 111, 109, 109, 101, 114, 99, 101>> }

\* Literal["professional", "friendly", "playful", "minimal", "luxury", "technical"]
ToneLiteral ==
    { <<112, 114, 111, 102, 101, 115, 115, 105, 111, 110, 97, 108>>, <<102, 114, 105, 101, 110, 100, 108, 121>>, <<112, 108, 97, 121, 102, 117, 108>>, <<109, 105, 110, 105, 109, 97, 108>>, <<108, 117, 120, 117, 114, 121>>,
      <<116, 101, 99, 104, 110, 105, 99, 97, 108>> }

\* Literal["markdown", "plain", "json"]
OutputFormatLiteral == { <<109, 97, 114, 107, 100, 111, 119, 110>>, <<112, 108, 97, 105, 110>>, <<106, 115, 111, 110>> }

Fields ==
    {"llm", "project_name", "site_type", "tone", "target_audience", "brand_colors",
     "features", "pages", "seo_keywords", "constraints", "preferred_stack",
     "deliverables", "output_format"}

\* Field(...): the fields with no default
RequiredFields == {"llm", "project_name", "site_type"}

\* the default of deliverables: "mapa do site", "roteiro de conteúdo",
\* "descrição de wireframe", "lista de componentes", "comportamento responsivo",
\* "metas de SEO", "checklist de acessibilidade"
DefaultDeliverables ==
    << <<109, 97, 112, 97, 32, 100, 111, 32, 115, 105, 116, 101>>,
       <<114, 111, 116, 101, 105, 114, 111, 32, 100, 101, 32, 99, 111, 110, 116, 101, 250,
             100, 111>>,
       <<100, 101, 115, 99, 114, 105, 231, 227, 111, 32, 100, 101, 32, 119, 105, 114, 101,
             102, 114, 97, 109, 101>>,
       <<108, 105, 115, 116, 97, 32, 100, 101, 32, 99, 111, 109, 112, 111, 110, 101, 110,
             116, 101, 115>>,
       <<99, 111, 109, 112, 111, 114, 116, 97, 109, 101, 110, 116, 111, 32, 114, 101, 115,
             112, 111, 110, 115, 105, 118, 111>>,
       <<109, 101, 116, 97, 115, 32, 100, 101, 32, 83, 69, 79>>,
       <<99, 104, 101, 99, 107, 108, 105, 115, 116, 32, 100, 101, 32, 97, 99, 101, 115,
             115, 105, 98, 105, 108, 105, 100, 97, 100, 101>> >>

\* the defaults of the optional fields; tone "professional", output_format "markdown"
FieldDefaults ==
    [tone |-> <<112, 114, 111, 102, 101, 115, 115, 105, 111, 110, 97, 108>>,
     target_audience |-> <<>>, brand_colors |-> <<>>, features |-> <<>>, pages |-> <<>>,
     seo_keywords |-> <<>>, constraints |-> <<>>, preferred_stack |-> <<>>,
     deliverables |-> DefaultDeliverables,
     output_format |-> <<109, 97, 114, 107, 100, 111, 119, 110>>]

\* A request body is a record of the thirteen fields plus "given", the names of the
\* fields the body holds.  The schema accepts it when the required fields are there
\* and the Literal fields hold one of their values.
Validates(body) ==
    /\ RequiredFields \subseteq body.given
    /\ body.llm \in LlmLiteral
    /\ body.site_type \in SiteTypeLiteral
    /\ "tone" \in body.given => body.tone \in ToneLiteral
    /\ "output_format" \in body.given => body.output_format \in OutputFormatLiteral

\* as PromptRequest, had deliverables the empty default of the other lists
PromptRequestEmptyDeliverables(body) ==
    [f \in Fields |->
        IF f \in body.given THEN body[f]
        ELSE IF f = "deliverables" THEN <<>> ELSE FieldDefaults[f]]

\* the PromptRequest a validated body becomes: a field left out takes its default
PromptRequest(body) ==
    [f \in Fields |-> IF f \in body.given THEN body[f] ELSE FieldDefaults[f]]

-----------------------------------------------------------------------------
(* MODEL_STYLES, lines 94-119. *)

ModelStylesTable ==
    (gpt_4o :>
        \* "Você é um(a) arquiteto(a) sênior de produto + UX + frontend. Produza
        \*  instruções precisas, concisas e prontas para implementação."
        [system |-> <<86, 111, 99, 234, 32, 233, 32, 117, 109, 40, 97, 41, 32, 97, 114, 113, 117, 105,
              116, 101, 116, 111, 40, 97, 41, 32, 115, 234, 110, 105, 111, 114, 32, 100, 101,
              32, 112, 114, 111, 100, 117, 116, 111, 32, 43, 32, 85, 88, 32, 43, 32, 102, 114,
              111, 110, 116, 101, 110, 100, 46, 32, 80, 114, 111, 100, 117, 122, 97, 32, 105,
              110, 115, 116, 114, 117, 231, 245, 101, 115, 32, 112, 114, 101, 99, 105, 115, 97,
              115, 44, 32, 99, 111, 110, 99, 105, 115, 97, 115, 32, 101, 32, 112, 114, 111,
              110, 116, 97, 115, 32, 112, 97, 114, 97, 32, 105, 109, 112, 108, 101, 109, 101,
              110, 116, 97, 231, 227, 111, 46>>,
        \* "Prefira listas objetivas e seções prontas para código."
         notes |-> <<80, 114, 101, 102, 105, 114, 97, 32, 108, 105, 115, 116, 97, 115, 32, 111, 98,
               106, 101, 116, 105, 118, 97, 115, 32, 101, 32, 115, 101, 231, 245, 101, 115, 32,
               112, 114, 111, 110, 116, 97, 115, 32, 112, 97, 114, 97, 32, 99, 243, 100, 105,
               103, 111, 46>>])
    @@ (gpt_4_1 :>
        \* "Você é um(a) redator(a) técnico(a) e engenheiro(a) de UI meticuloso(a)."
        [system |-> <<86, 111, 99, 234, 32, 233, 32, 117, 109, 40, 97, 41, 32, 114, 101, 100, 97, 116,
              111, 114, 40, 97, 41, 32, 116, 233, 99, 110, 105, 99, 111, 40, 97, 41, 32, 101,
              32, 101, 110, 103, 101, 110, 104, 101, 105, 114, 111, 40, 97, 41, 32, 100, 101,
              32, 85, 73, 32, 109, 101, 116, 105, 99, 117, 108, 111, 115, 111, 40, 97, 41, 46>>,
        \* "Prefira listas estruturadas e critérios de aceite explícitos."
         notes |-> <<80, 114, 101, 102, 105, 114, 97, 32, 108, 105, 115, 116, 97, 115, 32, 101, 115,
               116, 114, 117, 116, 117, 114, 97, 100, 97, 115, 32, 101, 32, 99, 114, 105, 116,
               233, 114, 105, 111, 115, 32, 100, 101, 32, 97, 99, 101, 105, 116, 101, 32, 101,
               120, 112, 108, 237, 99, 105, 116, 111, 115, 46>>])
    @@ (claude_3_5 :>
        \* "Você é reflexivo(a) e ponderado(a). Explique trade-offs e proponha alternativas."
        [system |-> <<86, 111, 99, 234, 32, 233, 32, 114, 101, 102, 108, 101, 120, 105, 118, 111, 40,
              97, 41, 32, 101, 32, 112, 111, 110, 100, 101, 114, 97, 100, 111, 40, 97, 41, 46,
              32, 69, 120, 112, 108, 105, 113, 117, 101, 32, 116, 114, 97, 100, 101, 45, 111,
              102, 102, 115, 32, 101, 32, 112, 114, 111, 112, 111, 110, 104, 97, 32, 97, 108,
              116, 101, 114, 110, 97, 116, 105, 118, 97, 115, 46>>,
        \* "Inclua checklists e seções de raciocínio."
         notes |-> <<73, 110, 99, 108, 117, 97, 32, 99, 104, 101, 99, 107, 108, 105, 115, 116, 115,
               32, 101, 32, 115, 101, 231, 245, 101, 115, 32, 100, 101, 32, 114, 97, 99, 105,
               111, 99, 237, 110, 105, 111, 46>>])
    @@ (gemini_1_5 :>
        \* "Você é designer de produto multimodal + engenheiro(a)."
        [system |-> <<86, 111, 99, 234, 32, 233, 32, 100, 101, 115, 105, 103, 110, 101, 114, 32, 100,
              101, 32, 112, 114, 111, 100, 117, 116, 111, 32, 109, 117, 108, 116, 105, 109,
              111, 100, 97, 108, 32, 43, 32, 101, 110, 103, 101, 110, 104, 101, 105, 114, 111,
              40, 97, 41, 46>>,
        \* "Se houver imagens, descreva-as. Mantenha passos explícitos."
         notes |-> <<83, 101, 32, 104, 111, 117, 118, 101, 114, 32, 105, 109, 97, 103, 101, 110, 115,
               44, 32, 100, 101, 115, 99, 114, 101, 118, 97, 45, 97, 115, 46, 32, 77, 97, 110,
               116, 101, 110, 104, 97, 32, 112, 97, 115, 115, 111, 115, 32, 101, 120, 112, 108,
               237, 99, 105, 116, 111, 115, 46>>])
    @@ (llama_3_1 :>
        \* "Você é um(a) arquiteto(a) web open-source. Seja explícito(a) e determinístico(a)."
        [system |-> <<86, 111, 99, 234, 32, 233, 32, 117, 109, 40, 97, 41, 32, 97, 114, 113, 117, 105,
              116, 101, 116, 111, 40, 97, 41, 32, 119, 101, 98, 32, 111, 112, 101, 110, 45,
              115, 111, 117, 114, 99, 101, 46, 32, 83, 101, 106, 97, 32, 101, 120, 112, 108,
              237, 99, 105, 116, 111, 40, 97, 41, 32, 101, 32, 100, 101, 116, 101, 114, 109,
              105, 110, 237, 115, 116, 105, 99, 111, 40, 97, 41, 46>>,
        \* "Evite ambiguidades; inclua divisão clara de arquivos/componentes."
         notes |-> <<69, 118, 105, 116, 101, 32, 97, 109, 98, 105, 103, 117, 105, 100, 97, 100, 101,
               115, 59, 32, 105, 110, 99, 108, 117, 97, 32, 100, 105, 118, 105, 115, 227, 111,
               32, 99, 108, 97, 114, 97, 32, 100, 101, 32, 97, 114, 113, 117, 105, 118, 111,
               115, 47, 99, 111, 109, 112, 111, 110, 101, 110, 116, 101, 115, 46>>])
    @@ (mistral_large :>
        \* "Você é um(a) tech lead pragmático(a) de frontend."
        [system |-> <<86, 111, 99, 234, 32, 233, 32, 117, 109, 40, 97, 41, 32, 116, 101, 99, 104, 32,
              108, 101, 97, 100, 32, 112, 114, 97, 103, 109, 225, 116, 105, 99, 111, 40, 97,
              41, 32, 100, 101, 32, 102, 114, 111, 110, 116, 101, 110, 100, 46>>,
        \* "Use instruções concisas com passos numerados."
         notes |-> <<85, 115, 101, 32, 105, 110, 115, 116, 114, 117, 231, 245, 101, 115, 32, 99, 111,
               110, 99, 105, 115, 97, 115, 32, 99, 111, 109, 32, 112, 97, 115, 115, 111, 115,
               32, 110, 117, 109, 101, 114, 97, 100, 111, 115, 46>>])

-----------------------------------------------------------------------------
(* bjoin, lines 122-123. *)

\* "- "
BulletMarker == <<45, 32>>

\* "- (nenhum)"
NonePlaceholder == <<45, 32, 40, 110, 101, 110, 104, 117, 109, 41>>

\* as bjoin, with repeated elements dropped
bjoinDeduplicated(items) ==
    LET first == SelectSeq(Indices(items),
                           LAMBDA k: \A j \in 1..(k - 1) : items[j] # items[k])
    IN  IF items # <<>>
        THEN JoinLines([k \in 1..Len(first) |-> BulletMarker \o items[first[k]]])
        ELSE NonePlaceholder

\* as bjoin, with an empty line between the bullets
bjoinSpaced(items) ==
    IF items # <<>>
    THEN JoinLines([k \in 1..(2 * Len(items) - 1) |->
                       IF k % 2 = 1 THEN BulletMarker \o items[(k + 1) \div 2] ELSE <<>>])
    ELSE NonePlaceholder

bjoin(items) ==
    IF items # <<>>
    THEN JoinLines([k \in 1..Len(items) |-> BulletMarker \o items[k]])
    ELSE NonePlaceholder

-----------------------------------------------------------------------------
(* The texts generate_prompt builds, lines 138-179. *)

\* as RenderHeader, with req.site_type and req.project_name in each other's place
RenderHeaderSwapped(r) ==
    <<77, 111, 100, 101, 108, 111, 58, 32>> \o r.llm \o <<10, 80, 114, 111, 106, 101, 116, 111, 58, 32>> \o r.site_type
    \o <<10, 84, 105, 112, 111, 58, 32>> \o r.project_name \o <<10, 84, 111, 109, 58, 32>> \o r.tone \o <<10>>

\* f"Modelo: {req.llm}\nProjeto: {req.project_name}\nTipo: {req.site_type}\nTom: {req.tone}\n"
RenderHeader(r) ==
    \* "Modelo: "
    <<77, 111, 100, 101, 108, 111, 58, 32>> \o r.llm
    \* "\nProjeto: "
    \o <<10, 80, 114, 111, 106, 101, 116, 111, 58, 32>> \o r.project_name
    \* "\nTipo: "
    \o <<10, 84, 105, 112, 111, 58, 32>> \o r.site_type
    \* "\nTom: "
    \o <<10, 84, 111, 109, 58, 32>> \o r.tone
    \o <<10>>

\* the f-string of lines 140-177, before .strip()
CoreTemplate(r, style, features, pages, keywords, stack, deliverables) ==
    \* "\n[SISTEMA]\n"
    <<10, 91, 83, 73, 83, 84, 69, 77, 65, 93, 10>> \o style.system
    \* "\nNotas adicionais: "
    \o <<10, 78, 111, 116, 97, 115, 32, 97, 100, 105, 99, 105, 111, 110, 97, 105, 115, 58, 32>> \o style.notes
    \* "\n\n[OBJETIVO]\nProjete e descreva um site completo para \""
    \o <<10, 10, 91, 79, 66, 74, 69, 84, 73, 86, 79, 93, 10, 80, 114, 111, 106, 101, 116, 101,
          32, 101, 32, 100, 101, 115, 99, 114, 101, 118, 97, 32, 117, 109, 32, 115, 105, 116,
          101, 32, 99, 111, 109, 112, 108, 101, 116, 111, 32, 112, 97, 114, 97, 32, 34>> \o r.project_name
    \* "\".\n\n[CONTEXTO]\nPúblico-alvo: "
    \o <<34, 46, 10, 10, 91, 67, 79, 78, 84, 69, 88, 84, 79, 93, 10, 80, 250, 98, 108, 105,
          99, 111, 45, 97, 108, 118, 111, 58, 32>>
    \* 'Público geral da web'
    \o OrDefault(r.target_audience, <<80, 250, 98, 108, 105, 99, 111, 32, 103, 101, 114, 97, 108, 32, 100, 97, 32, 119,
          101, 98>>)
    \* "\nCores/tema da marca: ", 'A definir'
    \o <<10, 67, 111, 114, 101, 115, 47, 116, 101, 109, 97, 32, 100, 97, 32, 109, 97, 114, 99,
          97, 58, 32>> \o OrDefault(r.brand_colors, <<65, 32, 100, 101, 102, 105, 110, 105, 114>>)
    \* "\nRestrições: ", 'Nenhuma especificada'
    \o <<10, 82, 101, 115, 116, 114, 105, 231, 245, 101, 115, 58, 32>> \o OrDefault(r.constraints, <<78, 101, 110, 104, 117, 109, 97, 32, 101, 115, 112, 101, 99, 105, 102, 105, 99, 97,
          100, 97>>)
    \* "\nStack preferida: \n"
    \o <<10, 83, 116, 97, 99, 107, 32, 112, 114, 101, 102, 101, 114, 105, 100, 97, 58, 32, 10>> \o stack
    \* "\n\n[TIPO DE SITE]\n"
    \o <<10, 10, 91, 84, 73, 80, 79, 32, 68, 69, 32, 83, 73, 84, 69, 93, 10>> \o r.site_type
    \* "\n\n[FUNCIONALIDADES]\n"
    \o <<10, 10, 91, 70, 85, 78, 67, 73, 79, 78, 65, 76, 73, 68, 65, 68, 69, 83, 93, 10>> \o features
    \* "\n\n[PÁGINAS]\n"
    \o <<10, 10, 91, 80, 193, 71, 73, 78, 65, 83, 93, 10>> \o pages
    \* "\n\n[SEO]\nPalavras-chave principais:\n"
    \o <<10, 10, 91, 83, 69, 79, 93, 10, 80, 97, 108, 97, 118, 114, 97, 115, 45, 99, 104, 97,
          118, 101, 32, 112, 114, 105, 110, 99, 105, 112, 97, 105, 115, 58, 10>> \o keywords
    \* "\n\n[ENTREGÁVEIS]\nProduza o seguinte, otimizando para o modelo selecionado:\n"
    \o <<10, 10, 91, 69, 78, 84, 82, 69, 71, 193, 86, 69, 73, 83, 93, 10, 80, 114, 111, 100,
          117, 122, 97, 32, 111, 32, 115, 101, 103, 117, 105, 110, 116, 101, 44, 32, 111, 116,
          105, 109, 105, 122, 97, 110, 100, 111, 32, 112, 97, 114, 97, 32, 111, 32, 109, 111,
          100, 101, 108, 111, 32, 115, 101, 108, 101, 99, 105, 111, 110, 97, 100, 111, 58, 10>>
    \o deliverables
    \* "\n\n[GUIA DE ESTILO]\n- Voz e tom: "
    \o <<10, 10, 91, 71, 85, 73, 65, 32, 68, 69, 32, 69, 83, 84, 73, 76, 79, 93, 10, 45, 32,
          86, 111, 122, 32, 101, 32, 116, 111, 109, 58, 32>> \o r.tone
    \* "\n- Acessibilidade: WCAG 2.2 AA; inclua landmarks, contraste de cores e
    \*  navegação por teclado.\n- Desempenho: lazy-load de mídia, compressão de assets,
    \*  mínimo de JavaScript quando possível.\n\n[SAÍDA]\nFormato de saída preferido: "
    \o <<10, 45, 32, 65, 99, 101, 115, 115, 105, 98, 105, 108, 105, 100, 97, 100, 101, 58, 32,
          87, 67, 65, 71, 32, 50, 46, 50, 32, 65, 65, 59, 32, 105, 110, 99, 108, 117, 97, 32,
          108, 97, 110, 100, 109, 97, 114, 107, 115, 44, 32, 99, 111, 110, 116, 114, 97, 115,
          116, 101, 32, 100, 101, 32, 99, 111, 114, 101, 115, 32, 101, 32, 110, 97, 118, 101,
          103, 97, 231, 227, 111, 32, 112, 111, 114, 32, 116, 101, 99, 108, 97, 100, 111, 46,
          10, 45, 32, 68, 101, 115, 101, 109, 112, 101, 110, 104, 111, 58, 32, 108, 97, 122,
          121, 45, 108, 111, 97, 100, 32, 100, 101, 32, 109, 237, 100, 105, 97, 44, 32, 99,
          111, 109, 112, 114, 101, 115, 115, 227, 111, 32, 100, 101, 32, 97, 115, 115, 101,
          116, 115, 44, 32, 109, 237, 110, 105, 109, 111, 32, 100, 101, 32, 74, 97, 118, 97,
          83, 99, 114, 105, 112, 116, 32, 113, 117, 97, 110, 100, 111, 32, 112, 111, 115, 115,
          237, 118, 101, 108, 46, 10, 10, 91, 83, 65, 205, 68, 65, 93, 10, 70, 111, 114, 109,
          97, 116, 111, 32, 100, 101, 32, 115, 97, 237, 100, 97, 32, 112, 114, 101, 102, 101,
          114, 105, 100, 111, 58, 32>>
    \o r.output_format
    \* "\nForneça seções com títulos claros. Inclua exemplos de copy, nomes de
    \*  componentes e critérios de aceite para cada página. Quando relevante, forneça
    \*  exemplos de utilitários do Tailwind.\n"
    \o <<10, 70, 111, 114, 110, 101, 231, 97, 32, 115, 101, 231, 245, 101, 115, 32, 99, 111,
          109, 32, 116, 237, 116, 117, 108, 111, 115, 32, 99, 108, 97, 114, 111, 115, 46, 32,
          73, 110, 99, 108, 117, 97, 32, 101, 120, 101, 109, 112, 108, 111, 115, 32, 100, 101,
          32, 99, 111, 112, 121, 44, 32, 110, 111, 109, 101, 115, 32, 100, 101, 32, 99, 111,
          109, 112, 111, 110, 101, 110, 116, 101, 115, 32, 101, 32, 99, 114, 105, 116, 233,
          114, 105, 111, 115, 32, 100, 101, 32, 97, 99, 101, 105, 116, 101, 32, 112, 97, 114,
          97, 32, 99, 97, 100, 97, 32, 112, 225, 103, 105, 110, 97, 46, 32, 81, 117, 97, 110,
          100, 111, 32, 114, 101, 108, 101, 118, 97, 110, 116, 101, 44, 32, 102, 111, 114, 110,
          101, 231, 97, 32, 101, 120, 101, 109, 112, 108, 111, 115, 32, 100, 101, 32, 117, 116,
          105, 108, 105, 116, 225, 114, 105, 111, 115, 32, 100, 111, 32, 84, 97, 105, 108, 119,
          105, 110, 100, 46, 10>>

\* as RenderCore, without the .strip()
RenderCoreUnstripped(r, style, features, pages, keywords, stack, deliverables) ==
    CoreTemplate(r, style, features, pages, keywords, stack, deliverables)

\* core = f"""...""".strip()
RenderCore(r, style, features, pages, keywords, stack, deliverables) ==
    Strip(CoreTemplate(r, style, features, pages, keywords, stack, deliverables))

\* as PromptResponse, with the two blocks in each other's place
PromptResponseBodyFirst(header, core, llm) ==
    [kind |-> "PromptResponse", prompt |-> core \o <<10, 10>> \o header, llm |-> llm]

\* PromptResponse(prompt=f"{header}\n\n{core}", llm=req.llm)
PromptResponse(header, core, llm) ==
    [kind |-> "PromptResponse", prompt |-> header \o <<10, 10>> \o core, llm |-> llm]

\* HTTPException(status_code=400, detail="Modelo não suportado")
UnsupportedModel ==
    [kind |-> "HTTPException", status_code |-> 400, detail |-> <<77, 111, 100, 101, 108, 111, 32, 110, 227, 111, 32, 115, 117, 112, 111, 114, 116, 97,
          100, 111>>]

\* generate_prompt run from its first line to its last on its own, against a table
generate_prompt(r, styles) ==
    IF r.llm \notin DOMAIN styles THEN UnsupportedModel
    ELSE LET style == styles[r.llm]
             features == bjoin(r.features)
             pages == bjoin(r.pages)
             keywords == bjoin(r.seo_keywords)
             stack == bjoin(r.preferred_stack)
             deliverables == bjoin(r.deliverables)
             header == RenderHeader(r)
             core == RenderCore(r, style, features, pages, keywords, stack, deliverables)
         IN  PromptResponse(header, core, r.llm)

-----------------------------------------------------------------------------
(* test_database, lines 58-91. *)

\* Python's None
None == "None"

\* os.getenv(name) as a condition: unset (None) and the empty string are false
Truthy(value) == value # None /\ value # <<>>

\* What "from database import db" finds, and what the handle then does:
\*   importing   "ImportError" (no such module), "Exception" (the module raises
\*               import_error while it loads) or "ok"
\*   db          "None" or "handle"
\*   name        "missing" (no attribute), "raises" (the attribute raises name_error)
\*               or "ok"
\*   listing     "raises" (list_collection_names raises list_error) or "ok"
\* Exceptions are instances of Exception, identified by their str().
NoDatabaseModule ==
    [importing |-> "ImportError", import_error |-> <<78, 111, 32, 109, 111, 100, 117, 108, 101, 32, 110, 97, 109, 101, 100, 32, 39, 100,
          97, 116, 97, 98, 97, 115, 101, 39>>,
     db |-> "None", name |-> "missing", name_value |-> <<>>, name_error |-> <<>>,
     listing |-> "ok", list_error |-> <<>>, collections |-> <<>>]

\* a str(e) of 60 characters, longer than the 50 the handler keeps
LongError ==
    <<99, 111, 110, 110, 101, 99, 116, 105, 111, 110, 32, 116, 111, 32, 109, 111, 110, 103,
          111, 100, 98, 58, 47, 47, 100, 98, 46, 105, 110, 116, 101, 114, 110, 97, 108, 58, 50,
          55, 48, 49, 55, 32, 114, 101, 102, 117, 115, 101, 100, 32, 97, 102, 116, 101, 114,
          32, 51, 48, 115, 46>>

Databases ==
    { NoDatabaseModule,
      [NoDatabaseModule EXCEPT !.importing = "Exception", !.import_error = LongError],
      [NoDatabaseModule EXCEPT !.importing = "ok", !.db = "None"],
      [NoDatabaseModule EXCEPT !.importing = "ok", !.db = "handle", !.name = "ok",
          !.name_value = <<97, 112, 112, 100, 98>>,
          !.collections = [i \in 1..11 |-> <<99, 111, 108>> \o <<48 + (i % 10)>>]],
      [NoDatabaseModule EXCEPT !.importing = "ok", !.db = "handle", !.name = "missing",
          !.listing = "raises", !.list_error = LongError],
      [NoDatabaseModule EXCEPT !.importing = "ok", !.db = "handle", !.name = "raises",
          !.name_error = <<110, 111, 116, 32, 97, 117, 116, 104, 111, 114, 105, 122, 101, 100>>] }

\* the values of DATABASE_URL and DATABASE_NAME in the process environment
Environs ==
    { [DATABASE_URL |-> None, DATABASE_NAME |-> <<97, 112, 112, 100, 98>>],
      [DATABASE_URL |-> <<109, 111, 110, 103, 111, 100, 98, 58, 47, 47, 108, 111, 99, 97, 108, 104, 111, 115,
            116>>, DATABASE_NAME |-> <<>>] }

\* lines 60-67
InitialStatus ==
    [ \* "✅ Em execução"
      backend |-> <<9989, 32, 69, 109, 32, 101, 120, 101, 99, 117, 231, 227, 111>>,
      \* "❌ Indisponível"
      database |-> <<10060, 32, 73, 110, 100, 105, 115, 112, 111, 110, 237, 118, 101, 108>>,
      database_url |-> None,
      database_name |-> None,
      \* "Não conectado"
      connection_status |-> <<78, 227, 111, 32, 99, 111, 110, 101, 99, 116, 97, 100, 111>>,
      collections |-> <<>> ]

\* as OuterExcept, were "except ImportError" the only handler: the exception leaves
OuterExceptMissing(status, error) == [kind |-> "raised", error |-> error]

\* except Exception as e (lines 85-86), entered with the response as it is by then
\* "❌ Erro: "
OuterExcept(status, error) ==
    [kind |-> "json",
     body |-> [status EXCEPT !.database = <<10060, 32, 69, 114, 114, 111, 58, 32>> \o Prefix(error, 50)]]

\* the try block, lines 68-86: a response, or the exception that leaves the handler
TryImport(d) ==
    IF d.importing = "ImportError"
    THEN \* "❌ Módulo de banco de dados não encontrado (opcional)"
         [kind |-> "json",
          body |-> [InitialStatus EXCEPT
                      !.database = <<10060, 32, 77, 243, 100, 117, 108, 111, 32, 100, 101, 32, 98, 97,
                            110, 99, 111, 32, 100, 101, 32, 100, 97, 100, 111, 115, 32, 110,
                            227, 111, 32, 101, 110, 99, 111, 110, 116, 114, 97, 100, 111, 32,
                            40, 111, 112, 99, 105, 111, 110, 97, 108, 41>>]]
    ELSE IF d.importing = "Exception" THEN OuterExcept(InitialStatus, d.import_error)
    ELSE IF d.db = "None"
    THEN \* "⚠️  Disponível, porém não inicializado"
         [kind |-> "json",
          body |-> [InitialStatus EXCEPT
                      !.database = <<9888, 65039, 32, 32, 68, 105, 115, 112, 111, 110, 237, 118, 101,
                            108, 44, 32, 112, 111, 114, 233, 109, 32, 110, 227, 111, 32, 105,
                            110, 105, 99, 105, 97, 108, 105, 122, 97, 100, 111>>]]
    ELSE LET \* "✅ Disponível", "✅ Configurada"
             available == [InitialStatus EXCEPT
                             !.database = <<9989, 32, 68, 105, 115, 112, 111, 110, 237, 118, 101, 108>>,
                             !.database_url = <<9989, 32, 67, 111, 110, 102, 105, 103, 117, 114, 97, 100,
                                   97>>]
             \* getattr(db, "name", "✅ Conectado"), "Conectado"
             connected == [available EXCEPT
                             !.database_name =
                                 IF d.name = "ok" THEN d.name_value
                                 ELSE <<9989, 32, 67, 111, 110, 101, 99, 116, 97, 100, 111>>,
                             !.connection_status = <<67, 111, 110, 101, 99, 116, 97, 100, 111>>]
         IN  IF d.name = "raises" THEN OuterExcept(available, d.name_error)
             ELSE IF d.listing = "raises"
             THEN \* "⚠️  Conectado, mas erro: "
                  [kind |-> "json",
                   body |-> [connected EXCEPT
                               !.database = <<9888, 65039, 32, 32, 67, 111, 110, 101, 99, 116, 97, 100,
                                     111, 44, 32, 109, 97, 115, 32, 101, 114, 114, 111, 58, 32>>
                                                \o Prefix(d.list_error, 50)]]
             ELSE \* "✅ Conectado e funcionando"
                  [kind |-> "json",
                   body |-> [connected EXCEPT
                               !.collections = Prefix(d.collections, 10),
                               !.database = <<9989, 32, 67, 111, 110, 101, 99, 116, 97, 100, 111, 32,
                                     101, 32, 102, 117, 110, 99, 105, 111, 110, 97, 110, 100,
                                     111>>]]

\* the handler: the try block, then lines 88-91 unless an exception left it
test_database(d, env) ==
    LET tried == TryImport(d)
    IN  IF tried.kind # "json" THEN tried
        ELSE [kind |-> "json",
              body |-> [tried.body EXCEPT
                  \* "✅ Definida", "❌ Não definida"
                  !.database_url = IF Truthy(env.DATABASE_URL) THEN <<9989, 32, 68, 101, 102, 105, 110, 105, 100, 97>>
                                   ELSE <<10060, 32, 78, 227, 111, 32, 100, 101, 102, 105, 110,
                                         105, 100, 97>>,
                  \* "✅ Definido", "❌ Não definido"
                  !.database_name = IF Truthy(env.DATABASE_NAME) THEN <<9989, 32, 68, 101, 102, 105, 110, 105, 100, 111>>
                                    ELSE <<10060, 32, 78, 227, 111, 32, 100, 101, 102, 105, 110,
                                          105, 100, 111>>]]

\* read_root, lines 50-52: {"message": "Backend do Assistente de Prompts de IA"}
read_root ==
    [kind |-> "json", body |-> [message |-> <<66, 97, 99, 107, 101, 110, 100, 32, 100, 111, 32, 65, 115, 115, 105, 115, 116, 101,
          110, 116, 101, 32, 100, 101, 32, 80, 114, 111, 109, 112, 116, 115, 32, 100, 101, 32,
          73, 65>>]]

\* hello, lines 54-56: {"message": "Olá da API do backend!"}
hello ==
    [kind |-> "json", body |-> [message |-> <<79, 108, 225, 32, 100, 97, 32, 65, 80, 73, 32, 100, 111, 32, 98, 97, 99, 107, 101,
          110, 100, 33>>]]

-----------------------------------------------------------------------------
(* The requests the model sends. *)

\* "Acme"; "blog", also a site type; "o", also part of "Modelo" and "Projeto"; the
\* empty name; "A\n[SEO]", a name of two lines
ProjectNames == { <<65, 99, 109, 101>>, <<98, 108, 111, 103>>, <<111>>, <<>>, <<65, 10, 91, 83, 69, 79, 93>> }

\* "cart"; the empty element; "a\n[SEO]", an element of two lines
Items == { <<99, 97, 114, 116>>, <<>>, <<97, 10, 91, 83, 69, 79, 93>> }

\* every list of at most MaxItems elements, repetitions and both orders included
Lists == UNION {[1..n -> Items] : n \in 0..MaxItems}

\* "", "devs", "a\n[SAÍDA]"
FreeTexts == { <<>>, <<100, 101, 118, 115>>, <<97, 10, 91, 83, 65, 205, 68, 65, 93>> }

ListFields == {"features", "pages", "seo_keywords", "preferred_stack", "deliverables"}

\* the smallest body: the required fields, every list given empty
MinimalBody(llm, project_name, site_type) ==
    [given |-> RequiredFields \cup ListFields,
     llm |-> llm, project_name |-> project_name, site_type |-> site_type,
     tone |-> <<>>, target_audience |-> <<>>, brand_colors |-> <<>>,
     features |-> <<>>, pages |-> <<>>, seo_keywords |-> <<>>, constraints |-> <<>>,
     preferred_stack |-> <<>>, deliverables |-> <<>>, output_format |-> <<>>]

\* "Acme", "landing"
BaseBody == MinimalBody(gpt_4o, <<65, 99, 109, 101>>, <<108, 97, 110, 100, 105, 110, 103>>)

With(body, field, value) ==
    [[body EXCEPT ![field] = value] EXCEPT !.given = @ \cup {field}]

Without(body, field) == [body EXCEPT !.given = @ \ {field}]

\* the bodies of the rendering runs: every model, site type and project name; every
\* tone and output format; every list in each list field, and in all five at once;
\* every combination of the three free texts; deliverables left out
ComposeBodies ==
    {MinimalBody(l, p, s) : l \in LlmLiteral, p \in ProjectNames, s \in SiteTypeLiteral}
    \cup {With(With(BaseBody, "tone", t), "output_format", o) :
            t \in ToneLiteral, o \in OutputFormatLiteral}
    \cup {With(BaseBody, f, items) : f \in ListFields, items \in Lists}
    \cup {[BaseBody EXCEPT !.features = items, !.pages = items, !.seo_keywords = items,
                           !.preferred_stack = items, !.deliverables = items] :
            items \in Lists}
    \cup {With(With(With(BaseBody, "target_audience", a), "brand_colors", c),
               "constraints", k) : a \in FreeTexts, c \in FreeTexts, k \in FreeTexts}
    \cup {Without(With(BaseBody, "features", items), "deliverables") : items \in Lists}
    \cup {Without(MinimalBody(l, <<65, 99, 109, 101>>, <<115, 97, 97, 115>>), "deliverables") : l \in LlmLiteral}
    \* rejected by the schema: no project_name; the tone "casual"
    \cup {Without(BaseBody, "project_name"), With(BaseBody, "tone", <<99, 97, 115, 117, 97, 108>>)}

\* "unknown-model", not a key of MODEL_STYLES
UnknownModel == <<117, 110, 107, 110, 111, 119, 110, 45, 109, 111, 100, 101, 108>>

\* the bodies of the server runs: the scenario of a landing page for Acme with one
\* feature and the default deliverables, a blog named "blog" on another model, and a
\* body that names an unknown model
ServerBodies ==
    { Without(With(BaseBody, "features", << <<99, 97, 114, 116>> >>), "deliverables"),
      With(MinimalBody(claude_3_5, <<98, 108, 111, 103>>, <<98, 108, 111, 103>>), "pages", << <<72, 111, 109, 101>>, <<72, 111, 109, 101>> >>),
      MinimalBody(UnknownModel, <<65, 99, 109, 101>>, <<108, 97, 110, 100, 105, 110, 103>>) }

\* PromptRequest objects built without validation (model_construct, a stub in a test)
\* and handed to generate_prompt as a plain function
DirectRequests == { PromptRequest(MinimalBody(UnknownModel, <<65, 99, 109, 101>>, <<108, 97, 110, 100, 105, 110, 103>>)) }

-----------------------------------------------------------------------------
(* State. *)

VARIABLES
    MODEL_STYLES,   \* the module-level dict, lines 94-119
    database,       \* what "from database import db" finds in this deployment
    environ,        \* DATABASE_URL and DATABASE_NAME of the process
    handler,        \* per worker: the handler of its last call
    body,           \* per worker: the body of its last POST
    pc,             \* per worker: "idle", or the next step of generate_prompt
    req,            \* per worker: the PromptRequest of its generate_prompt call
    locals,         \* per worker: the local variables of generate_prompt
    response        \* per worker: what its last call returned or raised

vars == <<MODEL_STYLES, database, environ, handler, body, pc, req, locals, response>>

Workers == 1..NumWorkers

NoBody == [given |-> {}]

NoRequest == [none |-> TRUE]

NoResponse == [kind |-> "none"]

NoLocals ==
    [style |-> [system |-> <<>>, notes |-> <<>>], features |-> <<>>, pages |-> <<>>,
     keywords |-> <<>>, stack |-> <<>>, deliverables |-> <<>>, header |-> <<>>,
     core |-> <<>>]

\* the 422 of the schema layer
RequestValidationError == [kind |-> "RequestValidationError", status_code |-> 422]

Init ==
    /\ MODEL_STYLES = ModelStylesTable
    /\ database \in Databases
    /\ environ \in Environs
    /\ handler = [t \in Workers |-> "none"]
    /\ body = [t \in Workers |-> NoBody]
    /\ pc = [t \in Workers |-> "idle"]
    /\ req = [t \in Workers |-> NoRequest]
    /\ locals = [t \in Workers |-> NoLocals]
    /\ response = [t \in Workers |-> NoResponse]

-----------------------------------------------------------------------------
(* The handlers. *)

\* POST /api/generate-prompt, line 126: the body is validated against PromptRequest
\* (lines 17-44); a body the schema rejects never reaches generate_prompt
PostGeneratePrompt(t, b) ==
    /\ pc[t] = "idle"
    /\ body' = [body EXCEPT ![t] = b]
    /\ IF Validates(b)
       THEN /\ handler' = [handler EXCEPT ![t] = "generate_prompt"]
            /\ pc' = [pc EXCEPT ![t] = "style"]
            /\ req' = [req EXCEPT ![t] = PromptRequest(b)]
            /\ response' = [response EXCEPT ![t] = NoResponse]
       ELSE /\ handler' = [handler EXCEPT ![t] = "none"]
            /\ pc' = pc
            /\ req' = [req EXCEPT ![t] = NoRequest]
            /\ response' = [response EXCEPT ![t] = RequestValidationError]
    /\ locals' = [locals EXCEPT ![t] = NoLocals]
    /\ UNCHANGED <<MODEL_STYLES, database, environ>>

\* generate_prompt(req) called as a function, line 127
CallGeneratePrompt(t, r) ==
    /\ pc[t] = "idle"
    /\ handler' = [handler EXCEPT ![t] = "generate_prompt"]
    /\ body' = [body EXCEPT ![t] = NoBody]
    /\ pc' = [pc EXCEPT ![t] = "style"]
    /\ req' = [req EXCEPT ![t] = r]
    /\ response' = [response EXCEPT ![t] = NoResponse]
    /\ locals' = [locals EXCEPT ![t] = NoLocals]
    /\ UNCHANGED <<MODEL_STYLES, database, environ>>

\* as GetStyle, with a default style in place of the raise:
\* MODEL_STYLES.get(req.llm, MODEL_STYLES["gpt-4o"])
GetStyleOrDefault(t) ==
    /\ pc[t] = "style"
    /\ locals' = [locals EXCEPT ![t].style =
                     IF req[t].llm \in DOMAIN MODEL_STYLES THEN MODEL_STYLES[req[t].llm]
                     ELSE MODEL_STYLES[gpt_4o]]
    /\ pc' = [pc EXCEPT ![t] = "bjoin"]
    /\ UNCHANGED <<MODEL_STYLES, database, environ, handler, body, req, response>>

\* as GetStyle, taking the notes out of the shared dict: style["notes"] is popped
GetStylePoppingNotes(t) ==
    /\ pc[t] = "style"
    /\ IF req[t].llm \in DOMAIN MODEL_STYLES
       THEN /\ locals' = [locals EXCEPT ![t].style = MODEL_STYLES[req[t].llm]]
            /\ MODEL_STYLES' = [MODEL_STYLES EXCEPT ![req[t].llm].notes = <<>>]
            /\ pc' = [pc EXCEPT ![t] = "bjoin"]
            /\ response' = response
       ELSE /\ locals' = locals
            /\ MODEL_STYLES' = MODEL_STYLES
            /\ pc' = [pc EXCEPT ![t] = "idle"]
            /\ response' = [response EXCEPT ![t] = UnsupportedModel]
    /\ UNCHANGED <<database, environ, handler, body, req>>

\* lines 128-130: style = MODEL_STYLES.get(req.llm); if not style: raise
GetStyle(t) ==
    /\ pc[t] = "style"
    /\ IF req[t].llm \in DOMAIN MODEL_STYLES
       THEN /\ locals' = [locals EXCEPT ![t].style = MODEL_STYLES[req[t].llm]]
            /\ pc' = [pc EXCEPT ![t] = "bjoin"]
            /\ response' = response
       ELSE /\ locals' = locals
            /\ pc' = [pc EXCEPT ![t] = "idle"]
            /\ response' = [response EXCEPT ![t] = UnsupportedModel]
    /\ UNCHANGED <<MODEL_STYLES, database, environ, handler, body, req>>

\* lines 132-136
JoinBullets(t) ==
    /\ pc[t] = "bjoin"
    /\ locals' = [locals EXCEPT ![t].features = bjoin(req[t].features),
                                ![t].pages = bjoin(req[t].pages),
                                ![t].keywords = bjoin(req[t].seo_keywords),
                                ![t].stack = bjoin(req[t].preferred_stack),
                                ![t].deliverables = bjoin(req[t].deliverables)]
    /\ pc' = [pc EXCEPT ![t] = "render"]
    /\ UNCHANGED <<MODEL_STYLES, database, environ, handler, body, req, response>>

\* as Render, were the five blocks module-level variables: it reads those that the
\* latest JoinBullets of any worker left
RenderSharedBlocks(t) ==
    /\ pc[t] = "render"
    /\ LET others == {u \in Workers : u # t /\ pc[u] = "render"}
           l == IF others = {} THEN locals[t] ELSE locals[CHOOSE u \in others : TRUE]
           header == RenderHeader(req[t])
           core == RenderCore(req[t], locals[t].style, l.features, l.pages, l.keywords,
                              l.stack, l.deliverables)
       IN  /\ locals' = [locals EXCEPT ![t].header = header, ![t].core = core]
           /\ response' = [response EXCEPT ![t] = PromptResponse(header, core, req[t].llm)]
    /\ pc' = [pc EXCEPT ![t] = "idle"]
    /\ UNCHANGED <<MODEL_STYLES, database, environ, handler, body, req>>

\* lines 138-179
Render(t) ==
    /\ pc[t] = "render"
    /\ LET l == locals[t]
           header == RenderHeader(req[t])
           core == RenderCore(req[t], l.style, l.features, l.pages, l.keywords, l.stack,
                              l.deliverables)
       IN  /\ locals' = [locals EXCEPT ![t].header = header, ![t].core = core]
           /\ response' = [response EXCEPT ![t] = PromptResponse(header, core, req[t].llm)]
    /\ pc' = [pc EXCEPT ![t] = "idle"]
    /\ UNCHANGED <<MODEL_STYLES, database, environ, handler, body, req>>

\* GET /test, lines 58-91
TestDatabase(t) ==
    /\ pc[t] = "idle"
    /\ handler' = [handler EXCEPT ![t] = "test_database"]
    /\ response' = [response EXCEPT ![t] = test_database(database, environ)]
    /\ body' = [body EXCEPT ![t] = NoBody]
    /\ req' = [req EXCEPT ![t] = NoRequest]
    /\ locals' = [locals EXCEPT ![t] = NoLocals]
    /\ UNCHANGED <<MODEL_STYLES, database, environ, pc>>

\* GET /, lines 50-52
ReadRoot(t) ==
    /\ pc[t] = "idle"
    /\ handler' = [handler EXCEPT ![t] = "read_root"]
    /\ response' = [response EXCEPT ![t] = read_root]
    /\ body' = [body EXCEPT ![t] = NoBody]
    /\ req' = [req EXCEPT ![t] = NoRequest]
    /\ locals' = [locals EXCEPT ![t] = NoLocals]
    /\ UNCHANGED <<MODEL_STYLES, database, environ, pc>>

\* GET /api/hello, lines 54-56
Hello(t) ==
    /\ pc[t] = "idle"
    /\ handler' = [handler EXCEPT ![t] = "hello"]
    /\ response' = [response EXCEPT ![t] = hello]
    /\ body' = [body EXCEPT ![t] = NoBody]
    /\ req' = [req EXCEPT ![t] = NoRequest]
    /\ locals' = [locals EXCEPT ![t] = NoLocals]
    /\ UNCHANGED <<MODEL_STYLES, database, environ, pc>>

-----------------------------------------------------------------------------
(* The server: every worker takes any request at any time. *)

Next ==
    \E t \in Workers :
        \/ \E b \in ServerBodies : PostGeneratePrompt(t, b)
        \/ \E r \in DirectRequests : CallGeneratePrompt(t, r)
        \/ GetStyle(t)
        \/ JoinBullets(t)
        \/ Render(t)
        \/ TestDatabase(t)
        \/ ReadRoot(t)
        \/ Hello(t)

Spec == Init /\ [][Next]_vars

(* The rendering runs: one worker, the wide set of bodies, one deployment. *)

InitCompose ==
    /\ Init
    /\ database = NoDatabaseModule
    /\ environ.DATABASE_URL = None

NextCompose ==
    \/ \E b \in ComposeBodies : PostGeneratePrompt(1, b)
    \/ \E r \in DirectRequests : CallGeneratePrompt(1, r)
    \/ GetStyle(1)
    \/ JoinBullets(1)
    \/ Render(1)

SpecCompose == InitCompose /\ [][NextCompose]_vars

-----------------------------------------------------------------------------
(* What the claims speak of. *)

\* worker t has finished a generate_prompt call
Done(t) == handler[t] = "generate_prompt" /\ pc[t] = "idle" /\ response[t] # NoResponse

\* ... and the call returned a PromptResponse
Returned(t) == Done(t) /\ response[t].kind = "PromptResponse"

\* the request passed the schema: its Literal fields hold one of their values
Validated(r) ==
    /\ r.llm \in LlmLiteral
    /\ r.site_type \in SiteTypeLiteral
    /\ r.tone \in ToneLiteral
    /\ r.output_format \in OutputFormatLiteral

\* s.split("\n"): the lines of a text
SplitLines(s) ==
    LET nl == SelectSeq(Indices(s), LAMBDA i: s[i] = 10)
        n == Len(nl)
    IN  [k \in 1..(n + 1) |->
            SubSeq(s, IF k = 1 THEN 1 ELSE nl[k - 1] + 1,
                      IF k = n + 1 THEN Len(s) ELSE nl[k] - 1)]

\* s.count(p) with overlaps counted: the places of s where p stands
Count(p, s) ==
    Cardinality({i \in 1..(Len(s) - Len(p) + 1) : SubSeq(s, i, i + Len(p) - 1) = p})

HasLineFeed(s) == \E i \in 1..Len(s) : s[i] = 10

HasSpace(s) == \E i \in 1..Len(s) : s[i] = 32

Elements(r) ==
    r.features \o r.pages \o r.seo_keywords \o r.preferred_stack \o r.deliverables

\* no free-text value of the request holds a line feed
SingleLineValues(r) ==
    /\ ~HasLineFeed(r.project_name)
    /\ ~HasLineFeed(r.target_audience)
    /\ ~HasLineFeed(r.brand_colors)
    /\ ~HasLineFeed(r.constraints)
    /\ \A k \in 1..Len(Elements(r)) : ~HasLineFeed(Elements(r)[k])

RECURSIVE SumLen(_)
SumLen(texts) == IF texts = <<>> THEN 0 ELSE Len(Head(texts)) + SumLen(Tail(texts))

RECURSIVE Flatten(_)
Flatten(seqs) == IF seqs = <<>> THEN <<>> ELSE Head(seqs) \o Flatten(Tail(seqs))

\* a is b with elements left out
RECURSIVE IsSubsequence(_, _)
IsSubsequence(a, b) ==
    IF a = <<>> THEN TRUE
    ELSE IF b = <<>> THEN FALSE
    ELSE IF Head(a) = Head(b) THEN IsSubsequence(Tail(a), Tail(b))
    ELSE IsSubsequence(a, Tail(b))

\* "Modelo: {llm}\nProjeto: ", what the header holds before the project name
BeforeName(r) == <<77, 111, 100, 101, 108, 111, 58, 32>> \o r.llm \o <<10, 80, 114, 111, 106, 101, 116, 111, 58, 32>>

\* "\nTipo: {site_type}\nTom: {tone}\n", what the header holds after the project name
AfterName(r) == <<10, 84, 105, 112, 111, 58, 32>> \o r.site_type \o <<10, 84, 111, 109, 58, 32>> \o r.tone \o <<10>>

-----------------------------------------------------------------------------
(* C1 *)

\* C1 as stated: for every validated request whose llm is one of the six identifiers,
\* generate_prompt returns a non-empty prompt whose header holds the project name
\* exactly once and the site type exactly once (stated for the non-empty names: the
\* empty text stands at every place of the header).
C1_NamedExactlyOnce ==
    \A t \in Workers :
        (Done(t) /\ Validated(req[t]) /\ req[t].project_name # <<>>) =>
            /\ response[t].kind = "PromptResponse"
            /\ response[t].prompt # <<>>
            /\ Count(req[t].project_name, locals[t].header) = 1
            /\ Count(req[t].site_type, locals[t].header) = 1

\* C1, amended: for every validated request whose llm is one of the six identifiers,
\* generate_prompt returns a non-empty prompt that starts with the header
\* "Modelo: {llm}\nProjeto: {project_name}\nTipo: {site_type}\nTom: {tone}\n".  The
\* header holds the site type once as its "Tipo: " value and once more for each time the
\* project name holds it; it holds a non-empty project name without spaces or line
\* feeds once as its "Projeto: " value and once more for each time the rest of the
\* header (labels, llm, site type, tone) holds that name.
C1_HeaderNamesProjectAndType ==
    \A t \in Workers :
        (Done(t) /\ Validated(req[t])) =>
            LET r == req[t]
                name == r.project_name
                expected == BeforeName(r) \o name \o AfterName(r)
            IN  /\ response[t].kind = "PromptResponse"
                /\ response[t].prompt # <<>>
                /\ Prefix(response[t].prompt, Len(expected)) = expected
                /\ locals[t].header = expected
                /\ Count(r.site_type, expected) = 1 + Count(r.site_type, name)
                /\ Count(name, expected) >= 1
                /\ (name # <<>> /\ ~HasSpace(name) /\ ~HasLineFeed(name)) =>
                      Count(name, expected)
                          = 1 + Count(name, BeforeName(r)) + Count(name, AfterName(r))

\* a prompt returned for "Acme", whose header names project and site type once each
C1_Witness ==
    \E t \in Workers :
        /\ Returned(t)
        /\ Validated(req[t])
        /\ req[t].project_name = <<65, 99, 109, 101>>
        /\ Count(req[t].project_name, locals[t].header) = 1
        /\ Count(req[t].site_type, locals[t].header) = 1

-----------------------------------------------------------------------------
(* C2 *)

\* C2: a generate_prompt call whose llm is not a key of MODEL_STYLES ends in the
\* HTTPException with status 400 and detail "Modelo não suportado"; it returns no
\* prompt and has rendered none, whether or not the llm passes the schema's Literal.
C2_UnsupportedModel ==
    \A t \in Workers :
        (handler[t] = "generate_prompt" /\ req[t].llm \notin DOMAIN MODEL_STYLES) =>
            /\ locals[t].header = <<>> /\ locals[t].core = <<>>
            /\ pc[t] \in {"style", "idle"}
            /\ pc[t] = "style" => response[t] = NoResponse
            /\ pc[t] = "idle" =>
                  /\ response[t].kind = "HTTPException"
                  /\ response[t].status_code = 400
                  /\ response[t].detail = <<77, 111, 100, 101, 108, 111, 32, 110, 227, 111, 32, 115, 117, 112, 111,
                        114, 116, 97, 100, 111>>
                  /\ "prompt" \notin DOMAIN response[t]

\* a call with the llm "unknown-model" has ended in the 400
C2_Witness ==
    \E t \in Workers :
        /\ Done(t)
        /\ req[t].llm = UnknownModel
        /\ req[t].llm \notin LlmLiteral
        /\ response[t].kind = "HTTPException"

-----------------------------------------------------------------------------
(* C3 *)

\* C3: two finished generate_prompt calls with the same request hold the same result,
\* prompt and llm alike, whatever calls the workers served between the two.
C3_Idempotent ==
    \A t1, t2 \in Workers :
        (Done(t1) /\ Done(t2) /\ req[t1] = req[t2]) => response[t1] = response[t2]

\* two workers hold the prompt of the same request
C3_Witness ==
    \E t1, t2 \in Workers :
        /\ t1 # t2
        /\ Returned(t1) /\ Returned(t2)
        /\ req[t1] = req[t2]
        /\ response[t1].prompt = response[t2].prompt

-----------------------------------------------------------------------------
(* C4 *)

\* the local of generate_prompt that holds the rendering of each list field
BlockOf ==
    [features |-> "features", pages |-> "pages", seo_keywords |-> "keywords",
     preferred_stack |-> "stack", deliverables |-> "deliverables"]

\* where the prompt shows each list: the heading of its section and the number of
\* lines between the heading and the list
\* "[FUNCIONALIDADES]", "[PÁGINAS]", "[SEO]", "[CONTEXTO]", "[ENTREGÁVEIS]"
PlaceOf ==
    [features |-> [heading |-> <<91, 70, 85, 78, 67, 73, 79, 78, 65, 76, 73, 68, 65, 68, 69, 83, 93>>, skip |-> 0],
     pages |-> [heading |-> <<91, 80, 193, 71, 73, 78, 65, 83, 93>>, skip |-> 0],
     seo_keywords |-> [heading |-> <<91, 83, 69, 79, 93>>, skip |-> 1],
     preferred_stack |-> [heading |-> <<91, 67, 79, 78, 84, 69, 88, 84, 79, 93>>, skip |-> 4],
     deliverables |-> [heading |-> <<91, 69, 78, 84, 82, 69, 71, 193, 86, 69, 73, 83, 93>>, skip |-> 1]]

\* the lines of a section from `skip` lines after its heading to the next empty line
\* (or the end); the heading is the last line that reads so when fromEnd, else the first
SectionLines(lines, heading, skip, fromEnd) ==
    LET at == SelectSeq(Indices(lines), LAMBDA i: lines[i] = heading)
        h == IF fromEnd THEN at[Len(at)] ELSE at[1]
        ends == SelectSeq(Indices(lines), LAMBDA i: i > h /\ lines[i] = <<>>)
        last == IF ends = <<>> THEN Len(lines) ELSE ends[1] - 1
    IN  SubSeq(lines, h + 1 + skip, last)

\* "- " followed by each element
Bullets(items) == [k \in 1..Len(items) |-> <<45, 32>> \o items[k]]

\* C4 as stated: an empty list renders the one line "- (nenhum)"; a list of n elements
\* renders exactly n lines, the k-th being "- " followed by the k-th element.
C4_OneLinePerElement ==
    \A t \in Workers : \A f \in ListFields :
        Returned(t) =>
            LET items == req[t][f]
                lines == SplitLines(locals[t][BlockOf[f]])
            IN  IF items = <<>> THEN lines = << <<45, 32, 40, 110, 101, 110, 104, 117, 109, 41>> >>
                ELSE lines = Bullets(items)

\* C4, amended: an empty list renders the one line "- (nenhum)"; a list of n elements
\* renders "- " followed by each element, in input order, joined by line feeds, with
\* no element added, removed, deduplicated or reordered.  That is exactly n bullet
\* lines, the k-th for the k-th element, when no element holds a line feed; an element
\* that holds line feeds spreads over that many more lines.  The prompt of a request
\* whose values hold no line feed shows these lines in the section of the list.
C4_BulletBlocks ==
    \A t \in Workers : \A f \in ListFields :
        Returned(t) =>
            LET items == req[t][f]
                lines == SplitLines(locals[t][BlockOf[f]])
                shown == SectionLines(SplitLines(response[t].prompt), PlaceOf[f].heading,
                                      PlaceOf[f].skip, FALSE)
            IN  /\ IF items = <<>> THEN lines = << <<45, 32, 40, 110, 101, 110, 104, 117, 109, 41>> >>
                   ELSE lines = Flatten([k \in 1..Len(items) |-> SplitLines(Bullets(items)[k])])
                /\ (items # <<>> /\ \A k \in 1..Len(items) : ~HasLineFeed(items[k])) =>
                      lines = Bullets(items)
                /\ SingleLineValues(req[t]) => shown = lines

\* a prompt that shows the features "cart", "cart" as two bullet lines and no pages as
\* the placeholder
C4_Witness ==
    \E t \in Workers :
        /\ Returned(t)
        /\ req[t].features = << <<99, 97, 114, 116>>, <<99, 97, 114, 116>> >>
        /\ req[t].pages = <<>>
        /\ SplitLines(locals[t].features) = << <<45, 32, 99, 97, 114, 116>>, <<45, 32, 99, 97, 114, 116>> >>
        /\ SplitLines(locals[t].pages) = << <<45, 32, 40, 110, 101, 110, 104, 117, 109, 41>> >>

-----------------------------------------------------------------------------
(* C5 *)

\* the number of the header's last line: three lines, those of the project name, "Tom"
TomLine(r) == 3 + Len(SplitLines(r.project_name))

\* C5 as stated: exactly one empty line lies between the last header line "Tom: ..." and
\* the first body line "[SISTEMA]", and the prompt has no leading or trailing whitespace.
C5_OneBlankLine ==
    \A t \in Workers :
        Returned(t) =>
            LET p == response[t].prompt
                lines == SplitLines(p)
                h == TomLine(req[t])
            IN  /\ lines[h] = <<84, 111, 109, 58, 32>> \o req[t].tone
                /\ lines[h + 1] = <<>>
                /\ lines[h + 2] = <<91, 83, 73, 83, 84, 69, 77, 65, 93>>
                /\ p[1] \notin Whitespace
                /\ p[Len(p)] \notin Whitespace

\* C5, amended: the prompt is the header block, which ends in the line feed of its last
\* line "Tom: ...", the separator "\n\n" and the stripped body block: exactly two empty
\* lines lie between "Tom: ..." and "[SISTEMA]", and the prompt has no leading or
\* trailing whitespace.
C5_TwoBlankLines ==
    \A t \in Workers :
        Returned(t) =>
            LET p == response[t].prompt
                lines == SplitLines(p)
                h == TomLine(req[t])
                core == locals[t].core
            IN  /\ p = locals[t].header \o <<10, 10>> \o core
                /\ core[1] \notin Whitespace /\ core[Len(core)] \notin Whitespace
                /\ lines[h] = <<84, 111, 109, 58, 32>> \o req[t].tone
                /\ lines[h + 1] = <<>>
                /\ lines[h + 2] = <<>>
                /\ lines[h + 3] = <<91, 83, 73, 83, 84, 69, 77, 65, 93>>
                /\ p[1] \notin Whitespace
                /\ p[Len(p)] \notin Whitespace

\* a prompt whose fifth and sixth lines are empty and whose seventh is "[SISTEMA]"
C5_Witness ==
    \E t \in Workers :
        /\ Returned(t)
        /\ TomLine(req[t]) = 4
        /\ SubSeq(SplitLines(response[t].prompt), 4, 7)
              = << <<84, 111, 109, 58, 32, 112, 114, 111, 102, 101, 115, 115, 105, 111, 110, 97,
                    108>>, <<>>, <<>>, <<91, 83, 73, 83, 84, 69, 77, 65, 93>> >>

-----------------------------------------------------------------------------
(* C6 *)

\* the sum of the lengths of the request's input fields
SumInputs(r) ==
    Len(r.llm) + Len(r.project_name) + Len(r.site_type) + Len(r.tone)
    + Len(r.target_audience) + Len(r.brand_colors) + Len(r.constraints)
    + Len(r.output_format) + SumLen(Elements(r))

\* the text of the template itself: the 32 characters of the header's labels and line
\* feeds, the separator "\n\n", and the 766 characters of the body's literal text
\* between its first "[" and its last "."
TemplateText == 32 + 2 + 766

\* the most the template adds to the input on its own account: its text, the longest
\* style (gpt-4o: 128 + 54), the three default phrases (20, 9, 20), five "- (nenhum)"
\* placeholders, and the second showing of the longest site type (9) and tone (12)
TemplateConstant == TemplateText + (128 + 54) + (20 + 9 + 20) + (5 * 10) + 9 + 12

\* len(x or d) for a default of n characters
LenOr(x, n) == IF x = <<>> THEN n ELSE Len(x)

\* len(bjoin(items)): the placeholder, or per element "- " and the element, and a
\* line feed between neighbours
BlockLen(items) == IF items = <<>> THEN 10 ELSE SumLen(items) + 3 * Len(items) - 1

\* C6 as stated: the length of the prompt is at most the sum of the lengths of the input
\* fields plus one constant, that of the template.
C6_SumPlusConstant ==
    \A t \in Workers :
        Returned(t) => Len(response[t].prompt) <= SumInputs(req[t]) + TemplateConstant

\* C6, amended: the length of the prompt is the template's text and style, plus llm and
\* output_format once, project_name, site_type and tone twice, each free text or its
\* default phrase, and per list its placeholder or its elements with three more
\* characters each but the last two; so it is at most the sum of the lengths of the
\* input fields plus the length of project_name plus three per list element plus one
\* constant.
C6_LengthLaw ==
    \A t \in Workers :
        Returned(t) =>
            LET r == req[t]
                style == ModelStylesTable[r.llm]
                n == Len(response[t].prompt)
            IN  /\ n = TemplateText + Len(style.system) + Len(style.notes)
                       + Len(r.llm) + Len(r.output_format)
                       + 2 * (Len(r.project_name) + Len(r.site_type) + Len(r.tone))
                       + LenOr(r.target_audience, 20) + LenOr(r.brand_colors, 9)
                       + LenOr(r.constraints, 20)
                       + BlockLen(r.features) + BlockLen(r.pages)
                       + BlockLen(r.seo_keywords) + BlockLen(r.preferred_stack)
                       + BlockLen(r.deliverables)
                /\ n <= SumInputs(r) + Len(r.project_name) + 3 * Len(Elements(r))
                           + TemplateConstant

\* a prompt for "Acme" that is longer than its inputs and the template's constant
C6_Witness ==
    \E t \in Workers :
        /\ Returned(t)
        /\ req[t].project_name = <<65, 99, 109, 101>>
        /\ Elements(req[t]) = <<>>
        /\ Len(response[t].prompt) = SumInputs(req[t]) + 4 + TemplateConstant

-----------------------------------------------------------------------------
(* C7 *)

\* "[SISTEMA]", "[OBJETIVO]", "[CONTEXTO]", "[TIPO DE SITE]", "[FUNCIONALIDADES]",
\* "[PÁGINAS]", "[SEO]", "[ENTREGÁVEIS]", "[GUIA DE ESTILO]", "[SAÍDA]"
Headings ==
    << <<91, 83, 73, 83, 84, 69, 77, 65, 93>>, <<91, 79, 66, 74, 69, 84, 73, 86, 79, 93>>, <<91, 67, 79, 78, 84, 69, 88, 84, 79, 93>>, <<91, 84, 73, 80, 79, 32, 68, 69, 32, 83, 73, 84, 69, 93>>,
       <<91, 70, 85, 78, 67, 73, 79, 78, 65, 76, 73, 68, 65, 68, 69, 83, 93>>, <<91, 80, 193, 71, 73, 78, 65, 83, 93>>, <<91, 83, 69, 79, 93>>, <<91, 69, 78, 84, 82, 69, 71, 193, 86, 69, 73, 83, 93>>,
       <<91, 71, 85, 73, 65, 32, 68, 69, 32, 69, 83, 84, 73, 76, 79, 93>>, <<91, 83, 65, 205, 68, 65, 93>> >>

HeadingSet == {Headings[k] : k \in 1..Len(Headings)}

\* the heading lines of a text, in the order they stand in
HeadingLines(lines) == SelectSeq(lines, LAMBDA l: l \in HeadingSet)

\* C7 as stated: the ten headings are each exactly once a line of the prompt, in the
\* fixed order, all after the four header lines, whatever the request's values are.
C7_HeadingsOnceInOrder ==
    \A t \in Workers :
        Returned(t) =>
            LET lines == SplitLines(response[t].prompt)
            IN  /\ HeadingLines(lines) = Headings
                /\ HeadingLines(SubSeq(lines, 1, 4)) = <<>>

\* C7, amended: in every prompt returned for a request none of whose free-text values
\* (project_name, target_audience, brand_colors, constraints, the list elements) holds
\* a line feed, the ten headings are each exactly once a line of the prompt, in the
\* fixed order, all after the four header lines.  A value that holds a line feed and
\* then the text of a heading adds a heading line; the template's own ten headings
\* stand in the fixed order all the same.
C7_HeadingsOfSingleLineValues ==
    \A t \in Workers :
        Returned(t) =>
            LET lines == SplitLines(response[t].prompt)
            IN  /\ IsSubsequence(Headings, HeadingLines(lines))
                /\ SingleLineValues(req[t]) =>
                      /\ HeadingLines(lines) = Headings
                      /\ HeadingLines(SubSeq(lines, 1, 4)) = <<>>
                      /\ lines[7] = Headings[1]

\* a prompt of single-line values, with free texts and lists given, whose heading lines
\* are the ten headings in order
C7_Witness ==
    \E t \in Workers :
        /\ Returned(t)
        /\ SingleLineValues(req[t])
        /\ req[t].target_audience # <<>>
        /\ HeadingLines(SplitLines(response[t].prompt)) = Headings

-----------------------------------------------------------------------------
(* C8 *)

\* the status tells that the datastore is not there: it starts with the cross mark,
\* nothing is connected and no collection is listed
\* "Não conectado"
Unavailable(status) ==
    /\ status.database[1] = 10060
    /\ status.connection_status = <<78, 227, 111, 32, 99, 111, 110, 101, 99, 116, 97, 100, 111>>
    /\ status.collections = <<>>

\* C8: test_database never raises: with the database module missing, its import
\* failing, db None, the name or list_collection_names() raising, the call returns its
\* status dict; and with no module to import the "database" status tells so.
C8_ProbeNeverRaises ==
    \A t \in Workers :
        handler[t] = "test_database" =>
            /\ response[t].kind = "json"
            /\ DOMAIN response[t].body = DOMAIN InitialStatus
            /\ database.importing # "ok" => Unavailable(response[t].body)
            /\ database.importing = "ImportError" =>
                  response[t].body.database
                      = <<10060, 32, 77, 243, 100, 117, 108, 111, 32, 100, 101, 32, 98, 97,
                            110, 99, 111, 32, 100, 101, 32, 100, 97, 100, 111, 115, 32, 110,
                            227, 111, 32, 101, 110, 99, 111, 110, 116, 114, 97, 100, 111, 32,
                            40, 111, 112, 99, 105, 111, 110, 97, 108, 41>>

\* the probe has answered in a deployment whose database module fails to load
C8_Witness ==
    \E t \in Workers :
        /\ handler[t] = "test_database"
        /\ database.importing = "Exception"
        /\ response[t].kind = "json"
        /\ Unavailable(response[t].body)
        /\ Len(response[t].body.database) = 8 + 50

-----------------------------------------------------------------------------
(* C9 *)

\* C9: MODEL_STYLES is never mutated, and every finished generate_prompt call, however
\* it was interleaved with the calls of the other workers, holds the result that its
\* request yields when generate_prompt runs alone from its first line to its last.
C9_Independent ==
    /\ MODEL_STYLES = ModelStylesTable
    /\ \A t \in Workers :
          Done(t) => response[t] = generate_prompt(req[t], ModelStylesTable)

\* a worker holds its prompt while another worker is inside generate_prompt for a
\* different request
C9_Witness ==
    \E t1, t2 \in Workers :
        /\ Returned(t1)
        /\ pc[t2] = "render"
        /\ req[t1] # req[t2]
        /\ response[t1] = generate_prompt(req[t1], ModelStylesTable)

-----------------------------------------------------------------------------
(* C10 *)

\* "- mapa do site", "- roteiro de conteúdo", "- descrição de wireframe",
\* "- lista de componentes", "- comportamento responsivo", "- metas de SEO",
\* "- checklist de acessibilidade"
DefaultBullets ==
    << <<45, 32, 109, 97, 112, 97, 32, 100, 111, 32, 115, 105, 116, 101>>, <<45, 32, 114, 111, 116, 101, 105, 114, 111, 32, 100, 101, 32, 99, 111, 110, 116, 101,
          250, 100, 111>>, <<45, 32, 100, 101, 115, 99, 114, 105, 231, 227, 111, 32, 100, 101, 32, 119, 105, 114,
          101, 102, 114, 97, 109, 101>>,
       <<45, 32, 108, 105, 115, 116, 97, 32, 100, 101, 32, 99, 111, 109, 112, 111, 110,
             101, 110, 116, 101, 115>>, <<45, 32, 99, 111, 109, 112, 111, 114, 116, 97, 109, 101, 110, 116, 111, 32, 114,
             101, 115, 112, 111, 110, 115, 105, 118, 111>>, <<45, 32, 109, 101, 116, 97, 115, 32, 100, 101, 32, 83, 69, 79>>,
       <<45, 32, 99, 104, 101, 99, 107, 108, 105, 115, 116, 32, 100, 101, 32, 97, 99, 101,
             115, 115, 105, 98, 105, 108, 105, 100, 97, 100, 101>> >>

\* C10: the prompt of a body that leaves deliverables out shows, under the last
\* "[ENTREGÁVEIS]" heading and its lead-in line, exactly the seven bullet lines of the
\* default list in its declared order, whatever requests were served before.
C10_DefaultDeliverables ==
    \A t \in Workers :
        (Returned(t) /\ body[t] # NoBody /\ "deliverables" \notin body[t].given) =>
            LET shown == SectionLines(SplitLines(response[t].prompt), <<91, 69, 78, 84, 82, 69, 71, 193, 86, 69, 73, 83, 93>>,
                                      1, TRUE)
            IN  /\ Len(shown) = 7
                /\ shown = DefaultBullets
                /\ req[t].deliverables = DefaultDeliverables

\* a prompt returned for a body without deliverables
C10_Witness ==
    \E t \in Workers :
        /\ Returned(t)
        /\ body[t] # NoBody
        /\ "deliverables" \notin body[t].given
        /\ Len(SplitLines(locals[t].deliverables)) = 7
=============================================================================
